---- MODULE Spec2Model ----
(***************************************************************************)
(* Health Insight (src/main.py): the prompt/response gateway call_openai   *)
(* with its retry loop and its 10 minute memoization, and the schema       *)
(* normalizer safe_load_json / sanitize_info / ensure_pct_str.             *)
(*                                                                         *)
(* Python strings are sequences of one-character strings.  JSON values     *)
(* are records tagged by k: "null", "bool", "int", "float", "str", "list", *)
(* "dict".  A float carries its Python repr (82.5 is <<"8","2",".","5">>). *)
(* A dict carries a function d from its keys to values; a key that is not  *)
(* in DOMAIN d is absent from the dict.                                    *)
(***************************************************************************)
EXTENDS Integers, Sequences, FiniteSets, TLC

VARIABLES
    input,      \* normalizer: the value handed to normalization (text or object)
    once,       \* normalizer: outcome of sanitize_info on the loaded input
    twice,      \* normalizer: outcome of sanitize_info on its own result
    npc,        \* normalizer: "start", "once", "twice"
    disease,    \* the text in the input box
    page,       \* what the page shows: "hint", "result", "failure", "traceback"
    gpc,        \* call_openai: "idle", "loop", "returned", "raised"
    cur,        \* the disease name call_openai was called with
    attempt,    \* the loop variable of the retry loop
    last,       \* the diagnostic of the latest failed attempt
    result,     \* the (ok, data, raw) triple call_openai returned
    escaped,    \* the exception that left call_openai, "" if none
    cache,      \* st.cache_data: entries [name, triple, age]
    requests,   \* history: requests sent during the current invocation
    failure,    \* history: what the latest attempt ended with
    served,     \* history: the latest return came out of the cache
    memo        \* history: triples computed by the function body, with their age

nvars == <<input, once, twice, npc>>
gvars == <<disease, page, gpc, cur, attempt, last, result, escaped, cache,
           requests, failure, served, memo>>
vars == <<nvars, gvars>>

(***************************************************************************)
(* Bounds of the model.                                                    *)
(***************************************************************************)
MaxStrLen == 3      \* longest string value drawn for a scalar field
MaxTextLen == 3     \* longest response text, in tokens
MaxNameLen == 2     \* longest text typed into the input box, in tokens

(***************************************************************************)
(* Strings.                                                                *)
(***************************************************************************)
DigitChars == <<"0", "1", "2", "3", "4", "5", "6", "7", "8", "9">>

IsDigit(c) == \E i \in 1..10 : DigitChars[i] = c

DigitVal(c) == (CHOOSE i \in 1..10 : DigitChars[i] = c) - 1

\* str.strip() / the whitespace int() and float() skip
LStrip(s) ==
    LET RECURSIVE go(_)
        go(t) == IF t # <<>> /\ Head(t) = " " THEN go(Tail(t)) ELSE t
    IN go(s)

RStrip(s) ==
    LET RECURSIVE go(_)
        go(t) == IF t # <<>> /\ t[Len(t)] = " " THEN go(SubSeq(t, 1, Len(t) - 1)) ELSE t
    IN go(s)

Strip(s) == RStrip(LStrip(s))

\* str.replace(c, r) for a one-character c and a replacement string r
Replace(s, c, r) ==
    LET RECURSIVE go(_)
        go(t) == IF t = <<>> THEN <<>>
                 ELSE (IF Head(t) = c THEN r ELSE <<Head(t)>>) \o go(Tail(t))
    IN go(s)

\* str.split(c)[0]
SplitFirst(s, c) ==
    LET RECURSIVE go(_)
        go(t) == IF t = <<>> \/ Head(t) = c THEN <<>> ELSE <<Head(t)>> \o go(Tail(t))
    IN go(s)

EndsWith(s, c) == s # <<>> /\ s[Len(s)] = c

AllDigits(s) == \A i \in 1..Len(s) : IsDigit(s[i])

DigitsValue(s) ==
    LET RECURSIVE go(_, _)
        go(t, acc) == IF t = <<>> THEN acc ELSE go(Tail(t), 10 * acc + DigitVal(Head(t)))
    IN go(s, 0)

NatToStr(n) ==
    LET RECURSIVE go(_)
        go(m) == IF m < 10 THEN <<DigitChars[m + 1]>>
                 ELSE go(m \div 10) \o <<DigitChars[(m % 10) + 1]>>
    IN go(n)

\* int(<str>): surrounding whitespace skipped, then decimal digits only.
\* [ok |-> FALSE] is ValueError.
ParseInt(s) ==
    LET t == Strip(s)
    IN IF t # <<>> /\ AllDigits(t) THEN [ok |-> TRUE, n |-> DigitsValue(t)]
       ELSE [ok |-> FALSE, n |-> 0]

StripLeadingZeros(s) ==
    LET RECURSIVE go(_)
        go(t) == IF Len(t) > 1 /\ Head(t) = "0" THEN go(Tail(t)) ELSE t
    IN go(s)

StripTrailingZeros(s) ==
    LET RECURSIVE go(_)
        go(t) == IF Len(t) > 1 /\ t[Len(t)] = "0" THEN go(SubSeq(t, 1, Len(t) - 1)) ELSE t
    IN go(s)

\* float(<str>): digits with at most one point and at least one digit.
\* The value is kept as the repr Python prints for it.
ParseFloat(s) ==
    LET t == Strip(s)
        ip == SplitFirst(t, ".")
        hasDot == Len(ip) < Len(t)
        fp == IF hasDot THEN SubSeq(t, Len(ip) + 2, Len(t)) ELSE <<>>
        valid == /\ AllDigits(ip) /\ AllDigits(fp)
                 /\ Len(ip) + Len(fp) > 0
        ipn == IF ip = <<>> THEN <<"0">> ELSE StripLeadingZeros(ip)
        fpn == IF fp = <<>> THEN <<"0">> ELSE StripTrailingZeros(fp)
    IN IF valid THEN [ok |-> TRUE, repr |-> ipn \o <<".">> \o fpn]
       ELSE [ok |-> FALSE, repr |-> <<>>]

(***************************************************************************)
(* JSON values.                                                            *)
(***************************************************************************)
JNull == [k |-> "null"]
JBool(b) == [k |-> "bool", b |-> b]
JInt(n) == [k |-> "int", n |-> n]
JFloat(r) == [k |-> "float", s |-> r]
JStr(s) == [k |-> "str", s |-> s]
JList(items) == [k |-> "list", items |-> items]
JDict(d) == [k |-> "dict", d |-> d]

EmptyMap == [x \in {} |-> JNull]
EmptyDict == JDict(EmptyMap)
EmptyList == JList(<<>>)

\* Python truth value of a JSON value (the `x or default` idiom)
Truthy(v) ==
    CASE v.k = "null" -> FALSE
      [] v.k = "bool" -> v.b
      [] v.k = "int" -> v.n # 0
      [] v.k = "float" -> v.s # <<"0", ".", "0">>
      [] v.k = "str" -> v.s # <<>>
      [] v.k = "list" -> v.items # <<>>
      [] v.k = "dict" -> DOMAIN v.d # {}

Or(v, default) == IF Truthy(v) THEN v ELSE default

\* dict.get(key, default)
Get(dv, key, default) == IF key \in DOMAIN dv.d THEN dv.d[key] ELSE default

\* d[key] = val
Put(d, key, val) == [x \in DOMAIN d \cup {key} |-> IF x = key THEN val ELSE d[x]]

\* the characters of a dict key
KeyChars(key) ==
    CASE key = "a" -> <<"a">>
      [] key = "name" -> <<"n", "a", "m", "e">>
      [] key = "rest" -> <<"r", "e", "s", "t">>
      [] key = "diet" -> <<"d", "i", "e", "t">>

\* str(x) and repr(x).  A dict prints its keys in insertion order, which a
\* function does not keep: str is applied to dicts of at most one key.
RECURSIVE StrOf(_)
Repr(v) == IF v.k = "str" THEN <<"'">> \o v.s \o <<"'">> ELSE StrOf(v)

StrOf(v) ==
    CASE v.k = "null" -> <<"N", "o", "n", "e">>
      [] v.k = "bool" -> IF v.b THEN <<"T", "r", "u", "e">> ELSE <<"F", "a", "l", "s", "e">>
      [] v.k = "int" -> NatToStr(v.n)
      [] v.k = "float" -> v.s
      [] v.k = "str" -> v.s
      [] v.k = "list" ->
            LET RECURSIVE join(_)
                join(xs) == IF xs = <<>> THEN <<>>
                            ELSE IF Len(xs) = 1 THEN Repr(xs[1])
                            ELSE Repr(xs[1]) \o <<",", " ">> \o join(Tail(xs))
            IN <<"[">> \o join(v.items) \o <<"]">>
      [] v.k = "dict" ->
            IF DOMAIN v.d = {} THEN <<"{", "}">>
            ELSE LET key == CHOOSE x \in DOMAIN v.d : TRUE
                 IN <<"{", "'">> \o KeyChars(key) \o <<"'", ":", " ">>
                        \o Repr(v.d[key]) \o <<"}">>

\* int(x).  [ok |-> FALSE] is the TypeError, ValueError or OverflowError.
IntOf(v) ==
    CASE v.k = "int" -> [ok |-> TRUE, n |-> v.n]
      [] v.k = "bool" -> [ok |-> TRUE, n |-> IF v.b THEN 1 ELSE 0]
      [] v.k = "float" -> [ok |-> TRUE, n |-> DigitsValue(SplitFirst(v.s, "."))]
      [] v.k = "str" -> ParseInt(v.s)
      [] OTHER -> [ok |-> FALSE, n |-> 0]

(***************************************************************************)
(* The schema normalizer.                                                  *)
(***************************************************************************)
\* ensure_pct_str without its `if not t.endswith("%")` test
ensure_pct_str_AlwaysAppend(v) ==
    IF v.k = "null" THEN <<"0", "%">>
    ELSE LET t == Strip(StrOf(v))
         IN IF t = <<>> THEN <<"0", "%">>
            ELSE IF ParseFloat(Replace(Replace(t, "%", <<>>), ",", <<".">>)).ok
                 THEN t \o <<"%">>
                 ELSE t

\* ensure_pct_str that only strips: a bare number keeps no "%"
ensure_pct_str_NoAppend(v) ==
    IF v.k = "null" THEN <<"0", "%">>
    ELSE LET t == Strip(StrOf(v))
         IN IF t = <<>> THEN <<"0", "%">> ELSE t

ensure_pct_str(v) ==
    IF v.k = "null" THEN <<"0", "%">>
    ELSE LET t == Strip(StrOf(v))
         IN IF t = <<>> THEN <<"0", "%">>
            ELSE IF ParseFloat(Replace(Replace(t, "%", <<>>), ",", <<".">>)).ok
                 THEN (IF ~EndsWith(t, "%") THEN t \o <<"%">> ELSE t)
                 ELSE t

\* lines 124-131: stats["total_cases"], stats a dict
CoerceTotalCases(stats) ==
    LET first == IntOf(Or(Get(stats, "total_cases", JInt(0)), JInt(0)))
        second == ParseInt(SplitFirst(
                      Replace(StrOf(Get(stats, "total_cases", JInt(0))), ",", <<>>), "."))
    IN IF first.ok THEN first.n
       ELSE IF second.ok THEN second.n
       ELSE 0

\* lines 134-137: stats["incidence_per_100k"]
CoerceIncidence(stats) ==
    LET f == ParseFloat(Replace(StrOf(Get(stats, "incidence_per_100k", JInt(0))), ",", <<".">>))
    IN IF f.ok THEN f.repr ELSE <<"0", ".", "0">>

\* lines 152-158 and 159-165: cases / deaths of one region
CoerceCount(r, key) ==
    LET first == IntOf(Or(Get(r, key, JInt(0)), JInt(0)))
        second == ParseInt(Replace(StrOf(Get(r, key, JInt(0))), ",", <<>>))
    IN IF first.ok THEN first.n
       ELSE IF second.ok THEN second.n
       ELSE 0

FixRegion(r) ==
    JDict([region |-> JStr(StrOf(Or(Get(r, "region", JStr(<<>>)), JStr(<<>>)))),
           cases |-> JInt(CoerceCount(r, "cases")),
           deaths |-> JInt(CoerceCount(r, "deaths"))])

\* lines 146-167
FixRegions(info) ==
    LET rlist == Or(Get(info, "region_breakdown", EmptyList), EmptyList)
        RECURSIVE go(_)
        go(xs) == IF xs = <<>> THEN <<>>
                  ELSE (IF Head(xs).k = "dict" THEN <<FixRegion(Head(xs))>> ELSE <<>>)
                           \o go(Tail(xs))
    IN IF rlist.k = "list" THEN JList(go(rlist.items)) ELSE EmptyList

\* `for s in x`: the elements Python iterates; [ok |-> FALSE] is the
\* TypeError "object is not iterable"
Iterate(v) ==
    CASE v.k = "list" -> [ok |-> TRUE, items |-> v.items]
      [] v.k = "str" -> [ok |-> TRUE, items |-> [i \in 1..Len(v.s) |-> JStr(<<v.s[i]>>)]]
      [] v.k = "dict" ->
            [ok |-> TRUE,
             items |-> IF DOMAIN v.d = {} THEN <<>>
                       ELSE <<JStr(KeyChars(CHOOSE x \in DOMAIN v.d : TRUE))>>]
      [] OTHER -> [ok |-> FALSE, items |-> <<>>]

\* line 179: [str(s) for s in (m.get("side_effects", []) or []) if s]
SideEffects(m) ==
    LET it == Iterate(Or(Get(m, "side_effects", EmptyList), EmptyList))
        RECURSIVE go(_)
        go(xs) == IF xs = <<>> THEN <<>>
                  ELSE (IF Truthy(Head(xs)) THEN <<JStr(StrOf(Head(xs)))>> ELSE <<>>)
                           \o go(Tail(xs))
    IN [ok |-> it.ok, val |-> JList(go(it.items))]

FixMed(m) ==
    JDict([name |-> JStr(StrOf(Or(Get(m, "name", JStr(<<>>)), JStr(<<>>)))),
           dosage |-> JStr(StrOf(Or(Get(m, "dosage", JStr(<<>>)), JStr(<<>>)))),
           side_effects |-> SideEffects(m).val])

\* lines 170-181; [ok |-> FALSE] when a side_effects value is not iterable
FixMeds(info) ==
    LET meds == Or(Get(info, "medications", EmptyList), EmptyList)
        dicts == IF meds.k = "list"
                 THEN SelectSeq(meds.items, LAMBDA m : m.k = "dict") ELSE <<>>
    IN [ok |-> \A i \in 1..Len(dicts) : SideEffects(dicts[i]).ok,
        val |-> JList([i \in 1..Len(dicts) |-> FixMed(dicts[i])])]

\* recovery_options without the isinstance(ropts, dict) test
FixOptionsUnchecked(info) == Or(Get(info, "recovery_options", EmptyDict), EmptyDict)

\* lines 184-188
FixOptions(info) ==
    LET ropts == Or(Get(info, "recovery_options", EmptyDict), EmptyDict)
    IN IF ropts.k = "dict"
       THEN JDict([x \in DOMAIN ropts.d |-> JStr(StrOf(ropts.d[x]))])
       ELSE EmptyDict

\* lines 122-143, stats a dict
FixStats(stats) ==
    LET d1 == Put(stats.d, "total_cases", JInt(CoerceTotalCases(stats)))
        d2 == Put(d1, "incidence_per_100k", JFloat(CoerceIncidence(stats)))
        d3 == Put(d2, "recovery_rate",
                  JStr(ensure_pct_str(Get(stats, "recovery_rate", JStr(<<"0", "%">>)))))
        d4 == Put(d3, "mortality_rate",
                  JStr(ensure_pct_str(Get(stats, "mortality_rate", JStr(<<"0", "%">>)))))
    IN JDict(d4)

Returned(v) == [raised |-> FALSE, exc |-> "", msg |-> "", val |-> v]
Raised(e, m) == [raised |-> TRUE, exc |-> e, msg |-> m, val |-> EmptyDict]

\* line 131, stats not a dict: the message of the TypeError
NoItemAssignment(stats) ==
    CASE stats.k = "str" -> "'str' object does not support item assignment"
      [] stats.k = "int" -> "'int' object does not support item assignment"
      [] stats.k = "float" -> "'float' object does not support item assignment"
      [] stats.k = "bool" -> "'bool' object does not support item assignment"
      [] stats.k = "list" -> "list indices must be integers or slices, not str"

\* sanitize_info(info): the record returned, or the exception that escapes
sanitize_info(info) ==
    IF info.k # "dict" THEN Returned(EmptyDict)
    ELSE LET stats == Or(Get(info, "statistics", EmptyDict), EmptyDict)
             meds == FixMeds(info)
         IN IF stats.k # "dict" THEN Raised("TypeError", NoItemAssignment(stats))
            ELSE IF ~meds.ok THEN Raised("TypeError", "object is not iterable")
            ELSE Returned(JDict(
                     Put(Put(Put(Put(info.d, "statistics", FixStats(stats)),
                                 "region_breakdown", FixRegions(info)),
                             "medications", meds.val),
                         "recovery_options", FixOptions(info))))

(***************************************************************************)
(* JSON text.  A response text is a sequence of tokens: the brackets, "n"  *)
(* (the number literal 1), "m" (the member "name":"Flu"), "b" (the member  *)
(* "statistics":"bad") and "w" (a word of prose, never valid JSON).        *)
(***************************************************************************)
TextTokens == {"{", "}", "[", "]", "n", "m", "b", "w"}

MemberOf(tok) ==
    IF tok = "m" THEN [name |-> JStr(<<"F", "l", "u">>)]
    ELSE [statistics |-> JStr(<<"b", "a", "d">>)]

\* one JSON value at the head of ts: [ok, val, rest]
RECURSIVE ParseValue(_)
ParseValue(ts) ==
    LET bad == [ok |-> FALSE, val |-> JNull, rest |-> <<>>]
    IN IF ts = <<>> THEN bad
       ELSE IF Head(ts) = "n" THEN [ok |-> TRUE, val |-> JInt(1), rest |-> Tail(ts)]
       ELSE IF Head(ts) = "[" THEN
            IF Len(ts) >= 2 /\ ts[2] = "]"
            THEN [ok |-> TRUE, val |-> EmptyList, rest |-> SubSeq(ts, 3, Len(ts))]
            ELSE LET e == ParseValue(Tail(ts))
                 IN IF e.ok /\ e.rest # <<>> /\ Head(e.rest) = "]"
                    THEN [ok |-> TRUE, val |-> JList(<<e.val>>), rest |-> Tail(e.rest)]
                    ELSE bad
       ELSE IF Head(ts) = "{" THEN
            IF Len(ts) >= 2 /\ ts[2] = "}"
            THEN [ok |-> TRUE, val |-> EmptyDict, rest |-> SubSeq(ts, 3, Len(ts))]
            ELSE IF Len(ts) >= 3 /\ ts[2] \in {"m", "b"} /\ ts[3] = "}"
            THEN [ok |-> TRUE, val |-> JDict(MemberOf(ts[2])), rest |-> SubSeq(ts, 4, Len(ts))]
            ELSE bad
       ELSE bad

\* json.loads(text): [ok |-> FALSE] is JSONDecodeError
JsonLoads(text) ==
    LET p == ParseValue(text)
    IN IF p.ok /\ p.rest = <<>> THEN [ok |-> TRUE, val |-> p.val]
       ELSE [ok |-> FALSE, val |-> JNull]

\* str.find / str.rfind of one token: 0 when there is none (Python's -1)
Find(text, tok) ==
    IF \E i \in 1..Len(text) : text[i] = tok
    THEN CHOOSE i \in 1..Len(text) : text[i] = tok /\ \A j \in 1..(i - 1) : text[j] # tok
    ELSE 0

RFind(text, tok) ==
    IF \E i \in 1..Len(text) : text[i] = tok
    THEN CHOOSE i \in 1..Len(text) : text[i] = tok /\ \A j \in (i + 1)..Len(text) : text[j] # tok
    ELSE 0

\* re.search(r"\{.*\}", text, DOTALL): leftmost "{" that a "}" follows, up
\* to the last "}"
RegexBraces(text) ==
    LET start == Find(text, "{")
        end == RFind(text, "}")
    IN IF start # 0 /\ end > start THEN SubSeq(text, start, end) ELSE <<>>

extract_json_block(text) ==
    LET start == Find(text, "{")
        end == RFind(text, "}")
    IN IF start # 0 /\ end # 0 /\ end > start THEN SubSeq(text, start, end)
       ELSE RegexBraces(text)

\* safe_load_json(text) for a str argument
safe_load_json(text) ==
    LET whole == JsonLoads(text)
        block == extract_json_block(text)
        inner == JsonLoads(block)
    IN IF whole.ok THEN whole.val
       ELSE IF block # <<>> /\ inner.ok THEN inner.val
       ELSE EmptyDict

(***************************************************************************)
(* The prompt.  A text is a sequence of tokens: the characters "{", "}",   *)
(* "[", "]" and ":" each stand alone, every run of other characters is one *)
(* token.  USER_TEMPLATE holds no "!" and no "." or "[" inside a field     *)
(* name, the other characters str.format gives a meaning to.               *)
(***************************************************************************)
USER_TEMPLATE ==
    <<"\n", "Provide structured, didactic information about the disease", ":", " \"", "{",
      "disease", "}",
      "\".\nReturn STRICT JSON (no prose outside JSON) with the following schema", ":",
      "\n\n", "{", "\n  \"name\"", ":", " string,\n  \"summary\"", ":",
      " string,\n  \"statistics\"", ":", " ", "{", "\n    \"total_cases\"", ":",
      " integer,\n    \"incidence_per_100k\"", ":", " number,\n    \"recovery_rate\"",
      ":", " string,\n    \"mortality_rate\"", ":", " string\n  ", "}",
      ",\n  \"region_breakdown\"", ":", " ", "[", "\n    ", "{", "\"region\"", ":",
      " string, \"cases\"", ":", " integer, \"deaths\"", ":", " integer", "}", "\n  ",
      "]", ",\n  \"recovery_options\"", ":", " ", "{", "\n    \"<option_name>\"", ":",
      " \"1-3 plain sentences (no medical advice, general info)\"\n  ", "}",
      ",\n  \"medications\"", ":", " ", "[", "\n    ", "{", "\"name\"", ":",
      " string, \"side_effects\"", ":", " ", "[", "string, ...", "]", ", \"dosage\"",
      ":", " string", "}", "\n  ", "]", ",\n  \"disclaimer\"", ":",
      " \"This content is educational only and not medical advice.\"\n", "}",
      "\n\nRules", ":",
      "\n- Output MUST be valid JSON with double quotes only. No markdown, no backticks, no text outside JSON.", "\n">>

SYSTEM_INSTRUCTIONS ==
    <<"\n",
      "You are a careful medical information formatter. You NEVER give medical advice.",
      "\n",
      "You ONLY return JSON that fits the schema. If you don't know something, estimate conservatively.",
      "\n",
      "Percentages must be strings with a percent sign (e.g., \"72.4%\"). Integers must be integers.",
      "\n">>

WhitespaceToks == {"\n", "\n\n", " ", "\n  ", "\n    "}

\* str.strip() of a token text
StripText(t) ==
    LET RECURSIVE left(_)
        left(u) == IF u # <<>> /\ Head(u) \in WhitespaceToks THEN left(Tail(u)) ELSE u
        RECURSIVE right(_)
        right(u) == IF u # <<>> /\ u[Len(u)] \in WhitespaceToks
                    THEN right(SubSeq(u, 1, Len(u) - 1)) ELSE u
    IN right(left(t))

\* str.format, parse_field: the position that ends the field name starting
\* at j ("}" or ":"); 0 for a "{" inside the name; Len(t) + 1 at the end of
\* the string
RECURSIVE FieldNameEnd(_, _)
FieldNameEnd(t, j) ==
    IF j > Len(t) THEN j
    ELSE IF t[j] = "{" THEN 0
    ELSE IF t[j] \in {"}", ":"} THEN j
    ELSE IF t[j] = "["
         THEN LET closes == {x \in (j + 1)..Len(t) : t[x] = "]"}
              IN IF closes = {} THEN Len(t) + 1
                 ELSE FieldNameEnd(t, CHOOSE x \in closes : \A y \in closes : x <= y)
    ELSE FieldNameEnd(t, j + 1)

\* str.format, parse_field: the "}" that closes the format spec starting at
\* j, nested braces counted; 0 when none does
RECURSIVE FormatSpecEnd(_, _, _)
FormatSpecEnd(t, j, depth) ==
    IF j > Len(t) THEN 0
    ELSE IF t[j] = "{" THEN FormatSpecEnd(t, j + 1, depth + 1)
    ELSE IF t[j] = "}" THEN (IF depth = 1 THEN j ELSE FormatSpecEnd(t, j + 1, depth - 1))
    ELSE FormatSpecEnd(t, j + 1, depth)

FormatError(e) == [ok |-> FALSE, out |-> <<>>, err |-> e]

\* t.format(disease=value): the text built, or the exception raised
RECURSIVE FormatFrom(_, _, _, _)
FormatFrom(t, i, value, out) ==
    IF i > Len(t) THEN [ok |-> TRUE, out |-> out, err |-> ""]
    ELSE IF t[i] = "}"
         THEN IF i < Len(t) /\ t[i + 1] = "}"
              THEN FormatFrom(t, i + 2, value, out \o <<"}">>)
              ELSE FormatError("ValueError")
    ELSE IF t[i] = "{"
         THEN IF i < Len(t) /\ t[i + 1] = "{"
              THEN FormatFrom(t, i + 2, value, out \o <<"{">>)
              ELSE LET e == FieldNameEnd(t, i + 1)
                       name == SubSeq(t, i + 1, e - 1)
                       close == IF e >= 1 /\ e <= Len(t) /\ t[e] = ":"
                                THEN FormatSpecEnd(t, e + 1, 1) ELSE e
                   IN IF e = 0 \/ e > Len(t) \/ close = 0 THEN FormatError("ValueError")
                      ELSE IF name = <<>> THEN FormatError("IndexError")
                      ELSE IF name # <<"disease">> THEN FormatError("KeyError")
                      ELSE IF close > e + 1 THEN FormatError("ValueError")
                      ELSE FormatFrom(t, close + 1, value, out \o value)
    ELSE FormatFrom(t, i + 1, value, out \o <<t[i]>>)

Format(t, value) == FormatFrom(t, 1, value, <<>>)

\* lines 198-199: the prompt of call_openai, or the exception that leaves it
BuildPrompt(disease_name) ==
    LET user_text == Format(USER_TEMPLATE, disease_name)
    IN IF user_text.ok
       THEN [ok |-> TRUE, err |-> "",
             out |-> StripText(SYSTEM_INSTRUCTIONS) \o <<"\n\n">> \o StripText(user_text.out)]
       ELSE user_text

(***************************************************************************)
(* The gateway call_openai behind st.cache_data(ttl=600): its constants    *)
(* and the state before the first click.                                   *)
(***************************************************************************)
\* a shorter life of the cache entries, ttl=300
TTLHalved == 600 \div 2

TTL == 600          \* seconds an entry of st.cache_data lives

C10_Window == 600   \* the 10 minutes of the claim, in seconds

\* a loop that gives up one attempt early, range(1, 3)
AttemptsTwo == 3 - 1

Attempts == 3       \* for attempt in range(1, 4)

NoResult == [ok |-> FALSE, data |-> JNull, raw |-> <<>>]

GatewayIdle ==
    /\ disease = <<>>
    /\ page = "hint"
    /\ gpc = "idle"
    /\ cur = <<>>
    /\ attempt = 0
    /\ last = <<>>
    /\ result = NoResult
    /\ escaped = ""
    /\ cache = {}
    /\ requests = 0
    /\ failure = <<>>
    /\ served = FALSE
    /\ memo = {}

(***************************************************************************)
(* Inputs of the normalizer.                                               *)
(***************************************************************************)
StrAlphabet == {"0", "1", ",", ".", "%", " ", "h"}

SeqsUpTo(S, n) == UNION {[1..m -> S] : m \in 0..n}

NonStrScalars ==
    {JNull, JBool(TRUE), JBool(FALSE), JInt(0), JInt(1), JInt(12),
     JFloat(<<"0", ".", "0">>), JFloat(<<"1", ".", "5">>),
     EmptyList, JList(<<JInt(1)>>), EmptyDict, JDict([a |-> JInt(1)])}

Scalars == NonStrScalars \cup {JStr(s) : s \in SeqsUpTo(StrAlphabet, MaxStrLen)}

SmallScalars == NonStrScalars \cup {JStr(s) : s \in SeqsUpTo(StrAlphabet, 1)}

Elements == {JStr(<<"h">>), JInt(1), EmptyDict}

StatKeys == {"total_cases", "incidence_per_100k", "recovery_rate", "mortality_rate"}

TextKeys == {"name", "summary", "disclaimer"}

Flu == JStr(<<"F", "l", "u">>)

StatsObjects ==
    {JDict([statistics |-> JDict(key :> v)]) : key \in StatKeys, v \in Scalars}
        \cup {JDict([statistics |-> v]) : v \in SmallScalars}

CountObjects ==
    {JDict([statistics |-> JDict([total_cases |-> v]),
            region_breakdown |-> JList(<<JDict([cases |-> v, deaths |-> v])>>)]) :
        v \in Scalars}

RegionObjects ==
    {JDict([region_breakdown |-> JList(<<JDict([region |-> v, cases |-> w]), u>>)]) :
        v \in SmallScalars, w \in SmallScalars, u \in Elements}
        \cup {JDict([region_breakdown |-> v]) : v \in SmallScalars}

MedObjects ==
    {JDict([medications |-> JList(<<JDict([side_effects |-> v])>>)]) :
        v \in SmallScalars \cup {JList(<<a, b>>) : a \in SmallScalars, b \in Elements}}
        \cup {JDict([medications |-> JList(<<u, JDict([name |-> v, dosage |-> w])>>)]) :
                 v \in SmallScalars, w \in SmallScalars, u \in Elements}
        \cup {JDict([medications |-> v]) : v \in SmallScalars}

OptionObjects ==
    {JDict([recovery_options |-> v]) : v \in SmallScalars}
        \cup {JDict([recovery_options |-> JDict([rest |-> v, diet |-> w])]) :
                 v \in SmallScalars, w \in SmallScalars}

TextFieldObjects ==
    {JDict([x \in present |-> Flu]) : present \in SUBSET TextKeys}

Objects ==
    StatsObjects \cup CountObjects \cup RegionObjects \cup MedObjects
        \cup OptionObjects \cup TextFieldObjects \cup SmallScalars

Texts == SeqsUpTo(TextTokens, MaxTextLen)

AsObject(v) == [kind |-> "obj", obj |-> v, text |-> <<>>]
AsText(t) == [kind |-> "text", obj |-> JNull, text |-> t]

\* what sanitize_info is handed: the object itself, or safe_load_json(text)
Loaded(in) == IF in.kind = "text" THEN safe_load_json(in.text) ELSE in.obj

NoOutcome == Returned(JNull)

NormIdle ==
    /\ input = AsObject(JNull)
    /\ once = NoOutcome
    /\ twice = NoOutcome
    /\ npc = "start"

NormInit ==
    /\ GatewayIdle
    /\ \/ \E v \in Objects : input = AsObject(v)
       \/ \E t \in Texts : input = AsText(t)
    /\ once = NoOutcome
    /\ twice = NoOutcome
    /\ npc = "start"

\* data = safe_load_json(raw_text); sanitize_info(data)
Normalize ==
    /\ npc = "start"
    /\ once' = sanitize_info(Loaded(input))
    /\ npc' = "once"
    /\ UNCHANGED <<input, twice>>
    /\ UNCHANGED gvars

\* sanitize_info applied to the record it returned
Renormalize ==
    /\ npc = "once"
    /\ ~once.raised
    /\ twice' = sanitize_info(once.val)
    /\ npc' = "twice"
    /\ UNCHANGED <<input, once>>
    /\ UNCHANGED gvars

NormNext == Normalize \/ Renormalize

NormSpec == NormInit /\ [][NormNext]_vars

(***************************************************************************)
(* The loop body of call_openai.                                          *)
(***************************************************************************)
\* json.dumps of a payload, as response tokens
Dumps(v) ==
    IF DOMAIN v.d = {} THEN <<"{", "}">>
    ELSE IF "name" \in DOMAIN v.d THEN <<"{", "m", "}">>
    ELSE <<"{", "b", "}">>

\* lines 228-241: the content entries of one item.  An entry whose value is
\* a dict ends the scan whatever its type says (lines 230-238).
RECURSIVE ScanParts(_, _, _)
ScanParts(parts, parsed, raw) ==
    IF parts = <<>> THEN [parsed |-> parsed, raw |-> raw]
    ELSE LET c == Head(parts)
         IN IF c.value.k = "dict" THEN [parsed |-> c.value, raw |-> raw]
            ELSE ScanParts(Tail(parts), parsed,
                           IF c.hasText THEN raw \o c.text ELSE raw)

\* lines 224-243: the items of resp.output, until one gave a truthy parsed
RECURSIVE ScanItems(_, _, _)
ScanItems(items, parsed, raw) ==
    IF items = <<>> THEN [parsed |-> parsed, raw |-> raw]
    ELSE LET r == ScanParts(Head(items), parsed, raw)
         IN IF Truthy(r.parsed) THEN r ELSE ScanItems(Tail(items), r.parsed, r.raw)

\* lines 259-261: the text of the content entries of one item
RECURSIVE PartTexts(_)
PartTexts(parts) ==
    IF parts = <<>> THEN <<>> ELSE Head(parts).text \o PartTexts(Tail(parts))

\* lines 255-261: the text of every content entry
RECURSIVE AllText(_)
AllText(items) ==
    IF items = <<>> THEN <<>> ELSE PartTexts(Head(items)) \o AllText(Tail(items))

\* lines 214-276: what the response yields, parsed (None is JNull) and raw_text
ExtractPayload(resp) ==
    LET s1 == ScanItems(resp.items, JNull, <<>>)
        raw2 == IF ~Truthy(s1.parsed)
                THEN (IF resp.output_text # <<>> THEN resp.output_text ELSE s1.raw)
                ELSE s1.raw
        raw3 == IF raw2 = <<>> THEN AllText(resp.items) ELSE raw2
        parsed4 == IF ~Truthy(s1.parsed) /\ resp.attr.k = "dict" THEN resp.attr
                   ELSE s1.parsed
    IN [parsed |-> parsed4, raw_text |-> raw3]

\* f"{type(ex).__name__}: {ex}"
Describe(exc, msg) == <<exc, ": ", msg>>

InvalidJSON == <<"Invalid JSON from model">>

Success(data, raw) == [ok |-> TRUE, triple |-> [ok |-> TRUE, data |-> data, raw |-> raw],
                       error |-> <<>>]
Failed(error) == [ok |-> FALSE, triple |-> NoResult, error |-> error]

\* lines 282, 287 and 296-297: the triple of a payload that sanitize_info
\* takes, or the diagnostic of the exception it raised
Conclude(clean, raw) ==
    IF clean.raised THEN Failed(Describe(clean.exc, clean.msg))
    ELSE Success(clean.val, raw)

\* lines 285-295: `if data:` decides between a return and "Invalid JSON"
Decide(data, raw) ==
    IF ~Truthy(data) THEN Failed(InvalidJSON) ELSE Conclude(sanitize_info(data), raw)

\* lines 279-287: the parsed dict if there is one, else the text
FromPayload(p) ==
    IF Truthy(p.parsed) /\ p.parsed.k = "dict"
    THEN Conclude(sanitize_info(p.parsed), Dumps(p.parsed))
    ELSE Decide(safe_load_json(p.raw_text), p.raw_text)

\* lines 204-297: one pass of the loop body on what the service did: the
\* triple returned, or the diagnostic assigned to `last`
AttemptOutcome(out) ==
    IF out.kind = "exception" THEN Failed(Describe(out.exc, out.msg))
    ELSE FromPayload(ExtractPayload(out.resp))

(***************************************************************************)
(* st.cache_data(ttl=600): an entry is made when the function body returns *)
(* and is served, unchanged, to calls with the same argument until it is   *)
(* TTL seconds old.                                                        *)
(***************************************************************************)
Fresh(e) == e.age < TTL

CacheLookup(name) == {e \in cache : e.name = name /\ Fresh(e)}

CacheStore(c, name, triple) ==
    {e \in c : e.name # name} \cup {[name |-> name, triple |-> triple, age |-> 0]}

\* dt seconds later; an entry TTL seconds old is never served again
Aged(c, dt) ==
    {[name |-> e.name, triple |-> e.triple,
      age |-> IF e.age + dt < TTL THEN e.age + dt ELSE TTL] : e \in c}

\* history: the triple the function body computed for `name`, a moment ago
Remember(m, name, triple) ==
    {e \in m : e.name # name} \cup {[name |-> name, triple |-> triple, age |-> 0]}

\* history: dt seconds later, what was computed C10_Window seconds ago or
\* more forgotten
Forget(m, dt) ==
    {[name |-> e.name, triple |-> e.triple, age |-> e.age + dt] :
        e \in {x \in m : x.age + dt < C10_Window}}

\* the function body starts: lines 201-203
EnterLoop(name) ==
    /\ gpc' = "loop"
    /\ cur' = name
    /\ attempt' = 1
    /\ last' = <<>>
    /\ requests' = 0
    /\ failure' = <<>>
    /\ served' = FALSE
    /\ UNCHANGED <<result, escaped, cache, memo, page>>

\* the decorator answers from its cache; lines 360-390 show the triple
ServeCached(name, e) ==
    /\ gpc' = "returned"
    /\ cur' = name
    /\ result' = e.triple
    /\ served' = TRUE
    /\ requests' = 0
    /\ failure' = <<>>
    /\ page' = IF e.triple.ok THEN "result" ELSE "failure"
    /\ UNCHANGED <<attempt, last, escaped, cache, memo>>

\* the function body returns `triple`: the decorator stores it, lines
\* 360-390 show it
Return(triple) ==
    /\ gpc' = "returned"
    /\ result' = triple
    /\ cache' = CacheStore(cache, cur, triple)
    /\ memo' = Remember(memo, cur, triple)
    /\ page' = IF triple.ok THEN "result" ELSE "failure"

(***************************************************************************)
(* What the service does on one request.                                   *)
(***************************************************************************)
Exceptions ==
    {[kind |-> "exception", exc |-> "APIConnectionError", msg |-> "Connection error."],
     [kind |-> "exception", exc |-> "APITimeoutError", msg |-> "Request timed out."]}

ResponseTexts ==
    {<<>>, <<"w">>, <<"n">>, <<"[", "n", "]">>, <<"{", "m", "}">>, <<"{", "b", "}">>,
     <<"w", "{", "m", "}", "w">>, <<"{", "w", "}">>, <<"{", "}">>}

JsonPart(v) == [type |-> "json", value |-> v, hasText |-> FALSE, text |-> <<>>]
TextPart(t) == [type |-> "output_text", value |-> JNull, hasText |-> TRUE, text |-> t]

Response(items, text, attr) ==
    [kind |-> "response", exc |-> "", msg |-> "",
     resp |-> [items |-> items, output_text |-> text, attr |-> attr]]

Payloads == {EmptyDict, JDict(MemberOf("m")), JDict(MemberOf("b"))}

Responses ==
    {Response(<<>>, t, JNull) : t \in ResponseTexts}
        \cup {Response(<<<<JsonPart(v)>>>>, <<>>, JNull) : v \in Payloads}
        \cup {Response(<<<<TextPart(<<"w">>), TextPart(<<"{", "m", "}">>)>>>>, <<>>, JNull)}
        \cup {Response(<<<<JsonPart(EmptyDict)>>, <<TextPart(<<"{", "m", "}">>)>>>>, <<>>, JNull)}
        \cup {Response(<<>>, <<>>, v) : v \in Payloads}

Outcomes == Exceptions \cup Responses

Names == {<<"flu">>, <<"malaria">>}

(***************************************************************************)
(* The retry loop and its memoization: call_openai from line 201 on.       *)
(***************************************************************************)
RetryInit == NormIdle /\ GatewayIdle

\* call_openai(name) from the page, the prompt at hand
Call(name) ==
    /\ gpc \in {"idle", "returned"}
    /\ IF CacheLookup(name) # {}
       THEN ServeCached(name, CHOOSE e \in CacheLookup(name) : TRUE)
       ELSE EnterLoop(name)
    /\ UNCHANGED <<disease, nvars>>

\* one pass of the loop: the request, the parsing, the return or the retry
Attempt(out) ==
    /\ gpc = "loop"
    /\ requests' = requests + 1
    /\ \E r \in {AttemptOutcome(out)} :
          IF r.ok
          THEN /\ Return(r.triple)
               /\ failure' = <<>>
               /\ UNCHANGED <<attempt, last>>
          ELSE /\ failure' = r.error
               /\ last' = r.error
               /\ IF attempt = Attempts
                  THEN /\ Return([ok |-> FALSE, data |-> EmptyDict, raw |-> last'])
                       /\ UNCHANGED attempt
                  ELSE /\ attempt' = attempt + 1
                       /\ UNCHANGED <<gpc, result, cache, memo, page>>
    /\ UNCHANGED <<disease, cur, escaped, served, nvars>>

\* time passes between two clicks
Advance ==
    /\ gpc # "loop"
    /\ \E e \in cache : e.age < TTL
    /\ cache' = Aged(cache, TTL \div 2)
    /\ memo' = Forget(memo, TTL \div 2)
    /\ UNCHANGED <<disease, page, gpc, cur, attempt, last, result, escaped,
                   requests, failure, served, nvars>>

RetryNext ==
    \/ \E name \in Names : Call(name)
    \/ \E out \in Outcomes : Attempt(out)
    \/ Advance

RetrySpec == RetryInit /\ [][RetryNext]_vars

(***************************************************************************)
(* The page: lines 355-392.                                                *)
(***************************************************************************)
NameTokens == {"flu", " ", "{", "}"}

NameTexts == SeqsUpTo(NameTokens, MaxNameLen)

\* disease.strip() of a token text
StripName(t) ==
    LET RECURSIVE left(_)
        left(u) == IF u # <<>> /\ Head(u) = " " THEN left(Tail(u)) ELSE u
        RECURSIVE right(_)
        right(u) == IF u # <<>> /\ u[Len(u)] = " "
                    THEN right(SubSeq(u, 1, Len(u) - 1)) ELSE u
    IN right(left(t))

Init == NormIdle /\ GatewayIdle

\* the user edits the input box: the script reruns, the button not pressed
TypeDisease(d) ==
    /\ disease' = d
    /\ page' = "hint"
    /\ gpc' = "idle"
    /\ escaped' = ""
    /\ UNCHANGED <<cur, attempt, last, result, cache, requests, failure, served, memo>>
    /\ UNCHANGED nvars

\* the button is pressed: lines 356-392, call_openai from its first line
ClickAnalyse ==
    /\ gpc # "loop"
    /\ LET name == StripName(disease)
       IN IF name = <<>>
          THEN /\ page' = "hint"
               /\ gpc' = "idle"
               /\ escaped' = ""
               /\ UNCHANGED <<cur, attempt, last, result, cache, requests, failure,
                              served, memo>>
          ELSE IF CacheLookup(name) # {}
          THEN /\ ServeCached(name, CHOOSE e \in CacheLookup(name) : TRUE)
               /\ escaped' = ""
          ELSE IF BuildPrompt(name).ok
          THEN EnterLoop(name)
          ELSE /\ gpc' = "raised"
               /\ cur' = name
               /\ escaped' = BuildPrompt(name).err
               /\ page' = "traceback"
               /\ requests' = 0
               /\ UNCHANGED <<attempt, last, result, cache, failure, served, memo>>
    /\ UNCHANGED <<disease, nvars>>

Next ==
    \/ \E d \in NameTexts : TypeDisease(d)
    \/ ClickAnalyse

Spec == Init /\ [][Next]_vars

(***************************************************************************)
(* The normalizer's claims, checked under NormSpec.                        *)
(***************************************************************************)
Normalized == npc \in {"once", "twice"}

Field(rec, key) == rec.d[key]

\* the value of a statistics sub-field in the loaded input; absent when the
\* input has no statistics mapping or the mapping lacks the key
StatInput(key) ==
    LET info == Loaded(input)
        stats == IF info.k = "dict" THEN Or(Get(info, "statistics", EmptyDict), EmptyDict)
                 ELSE EmptyDict
    IN IF stats.k = "dict" /\ key \in DOMAIN stats.d
       THEN [present |-> TRUE, v |-> stats.d[key]]
       ELSE [present |-> FALSE, v |-> JNull]

\* C3: sanitize_info never fails: whatever the input object, it returns a
\* record and raises no exception.
C3_SanitizeNeverRaises == Normalized => ~once.raised

AllRecordKeys ==
    {"name", "summary", "disclaimer", "statistics", "region_breakdown",
     "medications", "recovery_options"}

\* C4 as stated: every record normalization produces holds every
\* DiseaseRecord field, the statistics with their four sub-fields.
C4_AllFieldsPresent ==
    (Normalized /\ ~once.raised) =>
        /\ AllRecordKeys \subseteq DOMAIN once.val.d
        /\ StatKeys \subseteq DOMAIN Field(once.val, "statistics").d

\* C4 amended: a record produced from a JSON object holds statistics (a
\* mapping with its four sub-fields), region_breakdown and medications
\* (lists) and recovery_options (a mapping); name, summary and disclaimer
\* are present exactly when the input had them, with the input's value; a
\* value that is not a JSON object gives the empty record.
C4_CollectionsPresent ==
    (Normalized /\ ~once.raised) =>
        IF Loaded(input).k = "dict"
        THEN /\ DOMAIN once.val.d = DOMAIN Loaded(input).d \cup
                    {"statistics", "region_breakdown", "medications", "recovery_options"}
             /\ Field(once.val, "statistics").k = "dict"
             /\ StatKeys \subseteq DOMAIN Field(once.val, "statistics").d
             /\ Field(once.val, "region_breakdown").k = "list"
             /\ Field(once.val, "medications").k = "list"
             /\ Field(once.val, "recovery_options").k = "dict"
             /\ \A key \in TextKeys \cap DOMAIN once.val.d :
                    Field(once.val, key) = Field(Loaded(input), key)
        ELSE once.val = EmptyDict

\* C4 witness: a text without braces was normalized into a record that has
\* the statistics but no name
C4_Witness ==
    /\ npc = "once" /\ input.kind = "text" /\ input.text = <<"w">>
    /\ ~once.raised
    /\ "statistics" \in DOMAIN once.val.d
    /\ "name" \notin DOMAIN once.val.d

\* C7 as stated: both percent fields of every returned record end in "%".
C7_PercentAlways ==
    (Normalized /\ ~once.raised /\ Loaded(input).k = "dict") =>
        \A key \in {"recovery_rate", "mortality_rate"} :
            /\ Field(Field(once.val, "statistics"), key).k = "str"
            /\ EndsWith(Field(Field(once.val, "statistics"), key).s, "%")

\* a text that reads as a number once "%" is dropped and "," is a point:
\* digits around at most one point, at least one digit, blanks only outside
C7_Numeric(t) ==
    LET u == Strip(Replace(t, "%", <<>>))
        points == {i \in 1..Len(u) : u[i] \in {".", ","}}
    IN /\ Cardinality(points) <= 1
       /\ \A i \in (1..Len(u)) \ points : IsDigit(u[i])
       /\ Len(u) > Cardinality(points)

\* C7 amended: both percent fields are strings; the string is "0%" for a
\* missing, null or blank value, ends in "%" for a numeric value, and is
\* the value's own text, unchanged, for anything else.
C7_PercentWhenNumeric ==
    (Normalized /\ ~once.raised /\ Loaded(input).k = "dict") =>
        \A key \in {"recovery_rate", "mortality_rate"} :
            LET out == Field(Field(once.val, "statistics"), key)
                in == StatInput(key)
                t == Strip(StrOf(in.v))
            IN /\ out.k = "str"
               /\ IF ~in.present \/ in.v.k = "null" \/ t = <<>> THEN out.s = <<"0", "%">>
                  ELSE IF C7_Numeric(t) THEN EndsWith(out.s, "%") /\ Replace(out.s, "%", <<>>) = Replace(t, "%", <<>>)
                  ELSE out.s = t

\* C7 witness: a numeric recovery_rate without "%" got its "%"
C7_Witness ==
    /\ npc = "once" /\ ~once.raised
    /\ StatInput("recovery_rate").present
    /\ StatInput("recovery_rate").v = JStr(<<"1", ",", "0">>)
    /\ Field(Field(once.val, "statistics"), "recovery_rate").s = <<"1", ",", "0", "%">>

\* C8: sanitize_info is idempotent on objects: applied to the record it
\* returned for a JSON object, it returns (raises nothing) and gives back
\* the same record, field by field.
C8_Idempotent ==
    (npc = "twice" /\ Loaded(input).k = "dict") =>
        (~twice.raised /\ twice.val = once.val)

\* C8 witness: the second pass ran on a record the first pass had changed
C8_Witness ==
    /\ npc = "twice" /\ input.kind = "obj" /\ input.obj.k = "dict"
    /\ once.val # input.obj
    /\ StatInput("mortality_rate").present
    /\ StatInput("mortality_rate").v = JStr(<<"1", ".", "0">>)

\* the object whose three integer fields hold the same value v
C9_SameValue ==
    /\ input.kind = "obj" /\ input.obj \in CountObjects

C9_Digits(v) == Replace(SplitFirst(Replace(v.s, ",", <<>>), "."), " ", <<>>)

\* C9: one coercion rule for total_cases, cases and deaths: given the same
\* value the three fields come out equal, and a string of digits with
\* thousands separators and a decimal suffix gives the number it spells.
C9_SameRule ==
    (Normalized /\ ~once.raised /\ C9_SameValue) =>
        LET v == Field(Field(input.obj, "statistics"), "total_cases")
            total == Field(Field(once.val, "statistics"), "total_cases").n
            region == Field(once.val, "region_breakdown").items[1]
        IN /\ Field(region, "cases").n = total
           /\ Field(region, "deaths").n = total
           /\ (v.k = "str" /\ C9_Digits(v) # <<>> /\ AllDigits(C9_Digits(v))
                   /\ AllDigits(Replace(Replace(Strip(v.s), ",", <<>>), ".", <<>>)))
                  => total = DigitsValue(C9_Digits(v))

(***************************************************************************)
(* The gateway's claims, checked under Spec (the page, call_openai from    *)
(* its first line) and RetrySpec (the retry loop and its memoization).     *)
(***************************************************************************)

\* C1: call_openai always returns its (ok, data, diagnostic) triple: no
\* exception leaves the call, whatever the disease name.
C1_NoExceptionEscapes == escaped = "" /\ gpc # "raised"

\* USER_TEMPLATE with the tokens of its disease placeholder replaced by the
\* name and every other token, the literal braces too, as it is
RECURSIVE C2_Substitute(_, _)
C2_Substitute(t, name) ==
    IF t = <<>> THEN <<>>
    ELSE IF Len(t) >= 3 /\ SubSeq(t, 1, 3) = <<"{", "disease", "}">>
         THEN name \o C2_Substitute(SubSeq(t, 4, Len(t)), name)
    ELSE <<Head(t)>> \o C2_Substitute(Tail(t), name)

\* C2: for every non-empty disease name the prompt is built, and its user
\* part is the template with only the placeholder replaced by the name.
C2_PromptIsTemplateWithName ==
    cur # <<>> =>
        /\ BuildPrompt(cur).ok
        /\ BuildPrompt(cur).out =
               StripText(SYSTEM_INSTRUCTIONS) \o <<"\n\n">>
                   \o StripText(C2_Substitute(USER_TEMPLATE, cur))

C6_HoldsObject(t) ==
    \E i \in 1..Len(t) : \E j \in i..Len(t) :
        JsonLoads(SubSeq(t, i, j)).ok /\ JsonLoads(SubSeq(t, i, j)).val.k = "dict"

C10_Expected(name) ==
    IF \E e \in memo : e.name = name
    THEN /\ gpc' = "returned"
         /\ requests' = 0
         /\ \E e \in memo : e.name = name /\ result' = e.triple
    ELSE gpc' = "loop" /\ requests' = 0

====
